---- MODULE Spec2Model ----
(***************************************************************************)
(* Model of the aw-qt module manager (aw_qt/manager.py): a fixed registry  *)
(* of Module handles, each supervising one child process.                  *)
(*                                                                         *)
(* The caller is a single thread: at most one handle operation is in       *)
(* flight (call.pc).  Child processes exit on their own at any time.       *)
(***************************************************************************)
EXTENDS Integers, Sequences, FiniteSets, TLC

\* ---------------------------------------------------------------- bounds
\* Total number of child processes spawned in one behaviour.
MaxProcs == 2

\* Time periods start and end at the instants 0..MaxTime.
MaxTime == 5

\* ------------------------------------------------------ program constants
\* manager.py:120-126, the keys of the registry `modules`.
_possible_modules == {"aw-server", "aw-watcher-afk", "aw-watcher-window"}

\* Python's None for Optional[Popen] fields (manager.py:39-40).
NoProc == 0

\* Python's None for Popen.returncode / Popen.stderr / an OS exit status
\* that is not available yet; a present value v is <<v>>.
None == <<>>

\* Exit statuses a child may exit with on its own.
ExitCodes == {0, 1}

\* stderr() return values, manager.py:101 and manager.py:103.
RUNNING_SENTINEL == "Can't fetch output while running"
NOT_STARTED_SENTINEL == "Module not started, no output available"
\* the text appended by the last branch of stderr(), manager.py:113.
BROKEN_TEXT == "\n\nReading the output of a currently running module is currently broken, sorry."

VARIABLES
    started,        \* Module.started, per handle
    _process,       \* Module._process, per handle: a process id or NoProc
    _last_process,  \* Module._last_process, per handle
    _log,           \* Module._log, per handle: the sequence of appended texts
    procs,          \* the Popen objects created so far, by process id
    call,           \* the caller's position: idle, or blocked in stop()'s wait()
    ev              \* the last handle operation that returned, and its outcome

vars == <<started, _process, _last_process, _log, procs, call, ev>>

\* ------------------------------------------------------------ subprocess
\* subprocess.Popen(exec_cmd, universal_newlines=True), manager.py:57:
\* no stdout=/stderr= argument, hence the object's stderr attribute is None.
Popen(h) ==
    [owner |-> h, exit |-> None, returncode |-> None,
     stderr |-> None]

\* Popen.poll(): reap the exit status if the child has exited.
poll(pr) ==
    IF pr.returncode # None THEN pr ELSE [pr EXCEPT !.returncode = pr.exit]

\* Faulty variant of wait_returns: the wait is left out.
wait_returns_nowait(pr) == TRUE

\* Popen.wait() returns once the child has exited.
wait_returns(pr) == pr.exit # None

\* The OS view: the child is still running.
Running(p, ps) == p # NoProc /\ ps[p].exit = None


\* ---------------------------------------------------------------- Module
\* The caller is in no handle operation.
Idle == [pc |-> "idle", op |-> "", h |-> "", twice |-> FALSE,
         orig |-> FALSE, prevret |-> ""]

\* Module.__init__, manager.py:36-41, for every name of the registry
\* (manager.py:129).
Init ==
    /\ started = [h \in _possible_modules |-> FALSE]
    /\ _process = [h \in _possible_modules |-> NoProc]
    /\ _last_process = [h \in _possible_modules |-> NoProc]
    /\ _log = [h \in _possible_modules |-> <<>>]
    /\ procs = <<>>
    /\ call = Idle
    /\ ev = [op |-> "init", inner |-> "", h |-> "", ret |-> "None",
             pre |-> [started |-> FALSE, proc |-> NoProc, last |-> NoProc,
                      log |-> <<>>, running |-> FALSE],
             read |-> NoProc, sig |-> NoProc, spawned |-> NoProc,
             stops |-> {},
             twice |-> FALSE, orig |-> FALSE, prevret |-> ""]

\* The handle's fields and its child's OS state when an operation is entered.
Pre(h) ==
    [started |-> started[h], proc |-> _process[h], last |-> _last_process[h],
     log |-> _log[h], running |-> Running(_process[h], procs)]

NoPre ==
    [started |-> FALSE, proc |-> NoProc, last |-> NoProc,
     log |-> <<>>, running |-> FALSE]

\* The record of an operation that returned (ret = "None", "True", "False",
\* a sentinel, "log") or raised (ret = the exception's name).
\* twice: this is a toggle() directly following a toggle() on the same handle;
\* orig: the started flag before that earlier toggle(); prevret: its outcome.
Ev(op, inner, h, ret, pre, read, sig, spawned, stops, tw) ==
    [op |-> op, inner |-> inner, h |-> h, ret |-> ret, pre |-> pre,
     read |-> read, sig |-> sig, spawned |-> spawned, stops |-> stops,
     twice |-> tw.twice, orig |-> tw.orig, prevret |-> tw.prevret]

Twice(op, h) ==
    IF op = "toggle" /\ ev.op = "toggle" /\ ev.h = h
    THEN [twice |-> TRUE, orig |-> ev.pre.started, prevret |-> ev.ret]
    ELSE [twice |-> FALSE, orig |-> FALSE, prevret |-> ""]

\* Faulty variant of is_alive_ret: the test of returncode is inverted.
is_alive_ret_inverted(p, ps) ==
    IF p = NoProc THEN FALSE
    ELSE (IF poll(ps[p]).returncode # None THEN TRUE ELSE FALSE)

\* Module.is_alive, manager.py:90-96: the value returned ...
is_alive_ret(p, ps) ==
    IF p = NoProc THEN FALSE
    ELSE (IF poll(ps[p]).returncode = None THEN TRUE ELSE FALSE)

\* ... and the Popen objects after its poll().
is_alive_procs(p, ps) ==
    IF p = NoProc THEN ps ELSE [ps EXCEPT ![p] = poll(@)]


\* Faulty variant of DoStart: start() also writes a line to _log.
DoStart_logging(op, h, testing) ==
    \E launched \in BOOLEAN :
        LET p == Len(procs) + 1
        IN  IF ~launched
            THEN /\ ev' = Ev(op, "start", h, "OSError", Pre(h), NoProc, NoProc,
                             NoProc, {}, Twice(op, h))
                 /\ UNCHANGED <<started, _process, _last_process, _log, procs, call>>
            ELSE /\ Len(procs) < MaxProcs
                 /\ procs' = Append(procs, Popen(h))
                 /\ _process' = [_process EXCEPT ![h] = p]
                 /\ started' = [started EXCEPT ![h] = TRUE]
                 /\ _log' = [_log EXCEPT ![h] = Append(@, "Starting module")]
                 /\ ev' = Ev(op, "start", h, "None", Pre(h), NoProc, NoProc,
                             p, {}, Twice(op, h))
                 /\ UNCHANGED <<_last_process, call>>

\* Faulty variant of DoStart: started is set before Popen is called.
DoStart_flagfirst(op, h, testing) ==
    \E launched \in BOOLEAN :
        LET p == Len(procs) + 1
        IN  IF ~launched
            THEN /\ started' = [started EXCEPT ![h] = TRUE]
                 /\ ev' = Ev(op, "start", h, "OSError", Pre(h), NoProc, NoProc,
                             NoProc, {}, Twice(op, h))
                 /\ UNCHANGED <<_process, _last_process, _log, procs, call>>
            ELSE /\ Len(procs) < MaxProcs
                 /\ procs' = Append(procs, Popen(h))
                 /\ _process' = [_process EXCEPT ![h] = p]
                 /\ started' = [started EXCEPT ![h] = TRUE]
                 /\ ev' = Ev(op, "start", h, "None", Pre(h), NoProc, NoProc,
                             p, {}, Twice(op, h))
                 /\ UNCHANGED <<_last_process, _log, call>>

\* Module.start, manager.py:43-60.  Popen either raises (the executable is
\* missing or may not be run) or returns the new child's Popen object.
DoStart(op, h, testing) ==
    \E launched \in BOOLEAN :
        LET p == Len(procs) + 1
        IN  IF ~launched
            THEN /\ ev' = Ev(op, "start", h, "OSError", Pre(h), NoProc, NoProc,
                             NoProc, {}, Twice(op, h))
                 /\ UNCHANGED <<started, _process, _last_process, _log, procs, call>>
            ELSE /\ Len(procs) < MaxProcs
                 /\ procs' = Append(procs, Popen(h))
                 /\ _process' = [_process EXCEPT ![h] = p]
                 /\ started' = [started EXCEPT ![h] = TRUE]
                 /\ ev' = Ev(op, "start", h, "None", Pre(h), NoProc, NoProc,
                             p, {}, Twice(op, h))
                 /\ UNCHANGED <<_last_process, _log, call>>

\* Faulty variant of stop_branch: the early return of line 67-69 is missing.
stop_branch_noguard(st, alive) ==
    IF ~alive THEN "not_running" ELSE "terminate"

\* Faulty variant of stop_branch: stop() also returns early when the child is
\* found dead.
stop_branch_earlyreturn(st, alive) ==
    IF ~st \/ ~alive THEN "not_started" ELSE "terminate"

\* Module.stop, manager.py:67-72: which branch is taken.
stop_branch(st, alive) ==
    IF ~st THEN "not_started"
    ELSE IF ~alive THEN "not_running"
    ELSE "terminate"

\* Faulty variant of stop_last: _last_process is not updated.
stop_last_keep(proc, last) == last

\* Module.stop, manager.py:80: the process kept as _last_process.
stop_last(proc, last) == proc

\* Module.stop, manager.py:79-82, with ps the Popen objects so far; sig is
\* the process terminate() was called on, if any.
FinishStop(op, h, pre, ps, sig, tw) ==
    /\ procs' = is_alive_procs(_process[h], ps)
    /\ call' = Idle
    /\ IF is_alive_ret(_process[h], ps)
       THEN /\ ev' = Ev(op, "stop", h, "AssertionError", pre, NoProc, sig,
                        NoProc, {}, tw)
            /\ UNCHANGED <<started, _process, _last_process, _log>>
       ELSE /\ _last_process' =
                   [_last_process EXCEPT ![h] = stop_last(_process[h], @)]
            /\ _process' = [_process EXCEPT ![h] = NoProc]
            /\ started' = [started EXCEPT ![h] = FALSE]
            /\ ev' = Ev(op, "stop", h, "None", pre, NoProc, sig,
                        NoProc, {}, tw)
            /\ UNCHANGED _log

\* Module.stop, manager.py:62-77, up to the point where wait() blocks.
DoStop(op, h) ==
    LET br == stop_branch(started[h], is_alive_ret(_process[h], procs)) IN
    CASE br = "not_started" ->
            /\ ev' = Ev(op, "stop", h, "None", Pre(h), NoProc, NoProc,
                        NoProc, {}, Twice(op, h))
            /\ UNCHANGED <<started, _process, _last_process, _log, procs, call>>
      [] br = "not_running" ->
            FinishStop(op, h, Pre(h), is_alive_procs(_process[h], procs),
                       NoProc, Twice(op, h))
      [] br = "terminate" ->
            /\ procs' = is_alive_procs(_process[h], procs)
            /\ call' = [pc |-> "wait", op |-> op, h |-> h,
                        twice |-> Twice(op, h).twice,
                        orig |-> Twice(op, h).orig,
                        prevret |-> Twice(op, h).prevret]
            /\ UNCHANGED <<started, _process, _last_process, _log, ev>>

\* Module.stop, manager.py:76-82: wait() returns, the rest of stop() runs.
stop_wait(h) ==
    /\ call.pc = "wait"
    /\ call.h = h
    /\ wait_returns(procs[_process[h]])
    /\ FinishStop(call.op, h,
                  [Pre(h) EXCEPT !.running = TRUE],
                  [procs EXCEPT ![_process[h]].returncode = procs[_process[h]].exit],
                  _process[h],
                  [twice |-> call.twice, orig |-> call.orig,
                   prevret |-> call.prevret])

start(h, testing) == call.pc = "idle" /\ DoStart("start", h, testing)

stop(h) == call.pc = "idle" /\ DoStop("stop", h)

\* Faulty variant of toggle_branch: toggle() always starts.
toggle_branch_start(st) == "start"

\* Module.toggle, manager.py:84-88.
toggle_branch(st) == IF st THEN "stop" ELSE "start"

toggle(h, testing) ==
    /\ call.pc = "idle"
    /\ IF toggle_branch(started[h]) = "stop"
       THEN DoStop("toggle", h)
       ELSE DoStart("toggle", h, testing)

\* Faulty variant of is_alive: a child found dead clears the started flag.
is_alive_sync(h) ==
    /\ call.pc = "idle"
    /\ procs' = is_alive_procs(_process[h], procs)
    /\ started' = [started EXCEPT
                     ![h] = @ /\ is_alive_ret(_process[h], procs)]
    /\ ev' = Ev("is_alive", "is_alive", h,
                IF is_alive_ret(_process[h], procs) THEN "True" ELSE "False",
                Pre(h), NoProc, NoProc, NoProc, {}, Twice("is_alive", h))
    /\ UNCHANGED <<_process, _last_process, _log, call>>

\* Module.is_alive, manager.py:90-96.
is_alive(h) ==
    /\ call.pc = "idle"
    /\ procs' = is_alive_procs(_process[h], procs)
    /\ ev' = Ev("is_alive", "is_alive", h,
                IF is_alive_ret(_process[h], procs) THEN "True" ELSE "False",
                Pre(h), NoProc, NoProc, NoProc, {}, Twice("is_alive", h))
    /\ UNCHANGED <<started, _process, _last_process, _log, call>>

\* Faulty variant of stderr_branch: the check of line 100 is missing.
stderr_branch_noalive(alive, st, proc, last) ==
    IF proc = NoProc /\ last = NoProc THEN "not_started"
    ELSE IF st /\ ~alive THEN "read_process"
    ELSE IF last # NoProc THEN "read_last"
    ELSE "broken"

\* Module.stderr, manager.py:100-113: which branch is taken.  alive is the
\* result of is_alive(); line 106 calls it again, with the same result.
stderr_branch(alive, st, proc, last) ==
    IF alive THEN "running"
    ELSE IF proc = NoProc /\ last = NoProc THEN "not_started"
    ELSE IF st /\ ~alive THEN "read_process"
    ELSE IF last # NoProc THEN "read_last"
    ELSE "broken"

\* p.stderr.read(), manager.py:108 and manager.py:111: p is None or its
\* stderr attribute is None (AttributeError), or the pipe's text is read.
stderr_read(p, ps) ==
    IF p = NoProc \/ ps[p].stderr = None
    THEN [raised |-> TRUE, text |-> <<>>]
    ELSE [raised |-> FALSE, text |-> ps[p].stderr]

\* Module.stderr, manager.py:98-115.
stderr(h) ==
    LET br == stderr_branch(is_alive_ret(_process[h], procs), started[h],
                            _process[h], _last_process[h])
        src == IF br = "read_process" THEN _process[h] ELSE _last_process[h]
        rd == stderr_read(src, procs)
    IN  /\ call.pc = "idle"
        /\ procs' = is_alive_procs(_process[h], procs)
        /\ UNCHANGED <<started, _process, _last_process, call>>
        /\ CASE br = "running" ->
                 /\ ev' = Ev("stderr", "stderr", h, RUNNING_SENTINEL, Pre(h),
                             NoProc, NoProc, NoProc, {}, Twice("stderr", h))
                 /\ UNCHANGED _log
             [] br = "not_started" ->
                 /\ ev' = Ev("stderr", "stderr", h, NOT_STARTED_SENTINEL, Pre(h),
                             NoProc, NoProc, NoProc, {}, Twice("stderr", h))
                 /\ UNCHANGED _log
             [] br \in {"read_process", "read_last"} ->
                 IF rd.raised
                 THEN /\ ev' = Ev("stderr", "stderr", h, "AttributeError", Pre(h),
                                  src, NoProc, NoProc, {}, Twice("stderr", h))
                      /\ UNCHANGED _log
                 ELSE /\ _log' = [_log EXCEPT ![h] = @ \o rd.text]
                      /\ ev' = Ev("stderr", "stderr", h, "log", Pre(h),
                                  src, NoProc, NoProc, {}, Twice("stderr", h))
             [] br = "broken" ->
                 /\ _log' = [_log EXCEPT ![h] = Append(@, BROKEN_TEXT)]
                 /\ ev' = Ev("stderr", "stderr", h, "log", Pre(h),
                             NoProc, NoProc, NoProc, {}, Twice("stderr", h))

\* Faulty variant of unexpected_stop: the started flag is not looked at.
unexpected_stop_any(st, alive) == ~alive

\* get_unexpected_stops, manager.py:132-133: the filter's predicate;
\* `and` calls is_alive() only on a started handle.
unexpected_stop(st, alive) == st /\ ~alive

get_unexpected_stops ==
    /\ call.pc = "idle"
    /\ procs' = [p \in 1..Len(procs) |->
                   IF \E h \in _possible_modules : started[h] /\ _process[h] = p
                   THEN poll(procs[p]) ELSE procs[p]]
    /\ ev' = Ev("get_unexpected_stops", "get_unexpected_stops", "", "list",
                NoPre, NoProc, NoProc, NoProc,
                {h \in _possible_modules :
                    unexpected_stop(started[h], is_alive_ret(_process[h], procs))},
                Twice("get_unexpected_stops", ""))
    /\ UNCHANGED <<started, _process, _last_process, _log, call>>

\* A child exits, on its own or of the SIGTERM it was sent.
ChildExit(p) ==
    /\ p \in 1..Len(procs)
    /\ procs[p].exit = None
    /\ \E rc \in ExitCodes :
          procs' = [procs EXCEPT ![p].exit = <<rc>>]
    /\ UNCHANGED <<started, _process, _last_process, _log, call, ev>>


Next ==
    \/ \E h \in _possible_modules, testing \in BOOLEAN : start(h, testing)
    \/ \E h \in _possible_modules : stop(h)
    \/ \E h \in _possible_modules : stop_wait(h)
    \/ \E h \in _possible_modules, testing \in BOOLEAN : toggle(h, testing)
    \/ \E h \in _possible_modules : is_alive(h)
    \/ \E h \in _possible_modules : stderr(h)
    \/ get_unexpected_stops
    \/ \E p \in 1..MaxProcs : ChildExit(p)

Spec == Init /\ [][Next]_vars

\* The caller's thread keeps running: once wait() can return, stop() goes on.
FairSpec == Spec /\ WF_vars(\E h \in _possible_modules : stop_wait(h))

\* ------------------------------------------------- toggle(), two callers
\* Two callers run toggle() on the handles, statement by statement.  Here
\* call is [serialized, at]: at[c] is the position of caller c, and when
\* serialized is true a caller enters toggle() only while no other caller
\* is inside a handle operation.
Callers == {"c1", "c2"}

\* A caller outside any handle operation.
Outside == [pc |-> "idle", h |-> "", saw |-> FALSE, on |-> NoProc]

InitToggle ==
    /\ started = [h \in _possible_modules |-> FALSE]
    /\ _process = [h \in _possible_modules |-> NoProc]
    /\ _last_process = [h \in _possible_modules |-> NoProc]
    /\ _log = [h \in _possible_modules |-> <<>>]
    /\ procs = <<>>
    /\ \E b \in BOOLEAN :
          call = [serialized |-> b, at |-> [c \in Callers |-> Outside]]
    /\ ev = [op |-> "init"]

\* Caller c moves to position r.
Goto(c, r) == call' = [call EXCEPT !.at[c] = r]

\* Module.toggle, manager.py:85: caller c reads started and takes a branch.
t_toggle(c, h) ==
    /\ call.at[c].pc = "idle"
    /\ call.serialized => \A d \in Callers : call.at[d].pc = "idle"
    /\ Goto(c, [pc |-> toggle_branch(started[h]), h |-> h,
                saw |-> started[h], on |-> NoProc])
    /\ UNCHANGED <<started, _process, _last_process, _log, procs, ev>>

\* Module.start, manager.py:57: Popen raises, or the child is spawned and
\* assigned to _process.
t_start_popen(c) ==
    LET h == call.at[c].h IN
    /\ call.at[c].pc = "start"
    /\ \E launched \in BOOLEAN :
          IF ~launched
          THEN /\ Goto(c, Outside)
               /\ UNCHANGED <<_process, procs>>
          ELSE /\ Len(procs) < MaxProcs
               /\ procs' = Append(procs, Popen(h))
               /\ _process' = [_process EXCEPT ![h] = Len(procs) + 1]
               /\ Goto(c, [call.at[c] EXCEPT !.pc = "start_set"])
    /\ UNCHANGED <<started, _last_process, _log, ev>>

\* Module.start, manager.py:60.
t_start_set(c) ==
    LET h == call.at[c].h IN
    /\ call.at[c].pc = "start_set"
    /\ started' = [started EXCEPT ![h] = TRUE]
    /\ Goto(c, Outside)
    /\ UNCHANGED <<_process, _last_process, _log, procs, ev>>

\* Module.stop, manager.py:79-82, run by caller c on the Popen objects ps.
t_finish(c, h, ps) ==
    /\ procs' = is_alive_procs(_process[h], ps)
    /\ Goto(c, Outside)
    /\ IF is_alive_ret(_process[h], ps)
       THEN UNCHANGED <<started, _process, _last_process>>
       ELSE /\ _last_process' =
                   [_last_process EXCEPT ![h] = stop_last(_process[h], @)]
            /\ _process' = [_process EXCEPT ![h] = NoProc]
            /\ started' = [started EXCEPT ![h] = FALSE]

\* Module.stop, manager.py:67-76, up to the point where wait() blocks on
\* the process that _process is then.
t_stop_enter(c) ==
    LET h == call.at[c].h
        br == stop_branch(started[h], is_alive_ret(_process[h], procs))
    IN  /\ call.at[c].pc = "stop"
        /\ UNCHANGED <<_log, ev>>
        /\ CASE br = "not_started" ->
                   /\ Goto(c, Outside)
                   /\ UNCHANGED <<started, _process, _last_process, procs>>
              [] br = "not_running" ->
                   t_finish(c, h, is_alive_procs(_process[h], procs))
              [] br = "terminate" ->
                   /\ procs' = is_alive_procs(_process[h], procs)
                   /\ Goto(c, [call.at[c] EXCEPT !.pc = "wait",
                                                 !.on = _process[h]])
                   /\ UNCHANGED <<started, _process, _last_process>>

\* Module.stop, manager.py:76-82: wait() returns, the rest of stop() runs.
t_stop_wait(c) ==
    LET h == call.at[c].h
        p == call.at[c].on
    IN  /\ call.at[c].pc = "wait"
        /\ wait_returns(procs[p])
        /\ t_finish(c, h, [procs EXCEPT ![p].returncode = procs[p].exit])
        /\ UNCHANGED <<_log, ev>>

NextToggle ==
    \/ \E c \in Callers, h \in _possible_modules : t_toggle(c, h)
    \/ \E c \in Callers : t_start_popen(c)
    \/ \E c \in Callers : t_start_set(c)
    \/ \E c \in Callers : t_stop_enter(c)
    \/ \E c \in Callers : t_stop_wait(c)
    \/ \E p \in 1..MaxProcs : ChildExit(p)

SpecToggle == InitToggle /\ [][NextToggle]_vars

\* ----------------------------------------------------- _locate_executable
\* os.path.join(dir, name); a bare name has dir = "".
Path(dir, name) == [dir |-> dir, name |-> name]

\* Faulty variant of search_paths: the parent directory is looked at first.
search_paths_reversed == <<"parent_dir", "curr_dir">>

\* manager.py:18-20: [curr_dir, the parent of curr_dir].
search_paths == <<"curr_dir", "parent_dir">>

\* manager.py:23-32, the for-else loop from index i on: the first exec_path
\* that is a file, else the bare name.
RECURSIVE locate_loop(_, _, _, _)
locate_loop(exec_paths, i, name, isfile) ==
    IF i > Len(exec_paths) THEN <<Path("", name)>>
    ELSE IF exec_paths[i] \in isfile THEN <<exec_paths[i]>>
    ELSE locate_loop(exec_paths, i + 1, name, isfile)

\* manager.py:11-32; isfile is the set of paths os.path.isfile is true of.
_locate_executable(name, isfile) ==
    LET exec_paths == [i \in 1..Len(search_paths) |-> Path(search_paths[i], name)]
    IN  locate_loop(exec_paths, 1, name, isfile)

\* manager.py:50-52, the command start() hands to Popen.
exec_cmd(name, testing, isfile) ==
    IF testing
    THEN Append(_locate_executable(name, isfile), Path("", "--testing"))
    ELSE _locate_executable(name, isfile)

\* The paths a lookup of one of the registry's names can find.
AllPaths ==
    {Path(d, n) : d \in {"curr_dir", "parent_dir"}, n \in _possible_modules}

\* Module.start, manager.py:50-52, applied to a handle, a testing flag and a
\* state of the two directories; the call and its command are kept in ev.
start_exec_cmd(h, testing) ==
    /\ \E isfile \in SUBSET AllPaths :
          ev' = [op |-> "start", h |-> h, testing |-> testing,
                 isfile |-> isfile, cmd |-> exec_cmd(h, testing, isfile)]
    /\ UNCHANGED <<started, _process, _last_process, _log, procs, call>>

NextLocate ==
    \E h \in _possible_modules, testing \in BOOLEAN : start_exec_cmd(h, testing)

SpecLocate == Init /\ [][NextLocate]_vars

\* ------------------------------------------------------------ TimePeriod
\* aw_core/timeperiod.py:7-9, over integer instants.
TimePeriod(start_, end_) == [start |-> start_, end |-> end_]

\* The periods with start < end.
Periods ==
    {p \in [start : 0..MaxTime, end : 0..MaxTime] : p.start < p.end}

\* TimePeriod.contains, timeperiod.py:20-22.
contains(self, other) == self.start <= other.start /\ other.end <= self.end

\* Faulty variant of intersection: the tests of lines 29 and 32 take a
\* period that only touches self as intersecting.
intersection_closed(self, other) ==
    IF contains(self, other) THEN <<other>>
    ELSE IF self.start <= other.start /\ other.start <= self.end
         THEN <<TimePeriod(other.start, self.end)>>
    ELSE IF self.start <= other.end /\ other.end <= self.end
         THEN <<TimePeriod(self.start, other.end)>>
    ELSE IF contains(other, self) THEN <<self>>
    ELSE None

\* TimePeriod.intersection, timeperiod.py:24-39: None, or <<the period>>.
intersection(self, other) ==
    IF contains(self, other) THEN <<other>>
    ELSE IF self.start <= other.start /\ other.start < self.end
         THEN <<TimePeriod(other.start, self.end)>>
    ELSE IF self.start < other.end /\ other.end <= self.end
         THEN <<TimePeriod(self.start, other.end)>>
    ELSE IF contains(other, self) THEN <<self>>
    ELSE None

\* TimePeriod.overlaps, timeperiod.py:15-18: bool() of a TimePeriod is True,
\* of None is False.
overlaps(self, other) == intersection(self, other) # None

\* a.intersection(b), b.intersection(a) and both overlaps() are called on
\* two periods; the calls and their results are kept in ev.
intersect(a, b) ==
    /\ ev' = [op |-> "intersection", a |-> a, b |-> b,
              ret |-> intersection(a, b), rev |-> intersection(b, a),
              overlaps |-> overlaps(a, b), overlaps_rev |-> overlaps(b, a)]
    /\ UNCHANGED <<started, _process, _last_process, _log, procs, call>>

NextPeriods == \E a \in Periods, b \in Periods : intersect(a, b)

SpecPeriods == Init /\ [][NextPeriods]_vars

\* ------------------------------------------------------------ properties
\* The children spawned through handle h that are running.
LiveChildren(h) ==
    {p \in 1..Len(procs) : procs[p].owner = h /\ procs[p].exit = None}

\* C1: whenever stop() (called directly or by toggle()) is entered with
\* started true and returns, its assertion has not failed, started is false,
\* is_alive() is false and the child it was called on has exited.
C1_StopLeavesHandleDead ==
    (ev.inner = "stop" /\ ev.pre.started) =>
        /\ ev.ret = "None"
        /\ ~started[ev.h]
        /\ ~is_alive_ret(_process[ev.h], procs)
        /\ ~Running(ev.pre.proc, procs)

C1_Witness ==
    /\ ev.op = "stop" /\ ev.pre.started /\ ev.pre.running
    /\ ev.sig = ev.pre.proc /\ ev.ret = "None"

\* C2: is_alive() called on a started handle whose child (the one spawned by
\* the last successful start()) is still running returns True.
C2_AliveWhileChildRuns ==
    (ev.op = "is_alive" /\ ev.pre.started /\ ev.pre.running) =>
        /\ ev.ret = "True"
        /\ procs[ev.pre.proc].owner = ev.h
        /\ \A p \in 1..Len(procs) : procs[p].owner = ev.h => p <= ev.pre.proc

C2_Witness ==
    ev.op = "is_alive" /\ ev.pre.started /\ ev.pre.running /\ ev.ret = "True"

\* C3: get_unexpected_stops() returns exactly the handles that are started
\* and whose current child has exited; never-started, stopped and running
\* handles are not returned.
C3_UnexpectedStopsExact ==
    [][get_unexpected_stops =>
         /\ ev'.stops = {h \in _possible_modules :
                            /\ started[h]
                            /\ _process[h] # NoProc
                            /\ procs[_process[h]].exit # None}
         /\ \A h \in ev'.stops : started'[h] /\ ~Running(_process'[h], procs')
      ]_vars

C3_Witness ==
    /\ ev.op = "get_unexpected_stops"
    /\ ev.stops # {}
    /\ \E h \in _possible_modules \ ev.stops : started[h]
    /\ \E h \in _possible_modules \ ev.stops : ~started[h]

\* C4: stop() on a handle that is not started returns normally, signals no
\* process, leaves started, _process, _last_process and _log as they were,
\* and is_alive() is false afterwards.
C4_StopNotStartedNoop ==
    (ev.op = "stop" /\ ~ev.pre.started) =>
        /\ ev.ret = "None"
        /\ ev.sig = NoProc
        /\ started[ev.h] = ev.pre.started
        /\ _process[ev.h] = ev.pre.proc
        /\ _last_process[ev.h] = ev.pre.last
        /\ _log[ev.h] = ev.pre.log
        /\ ~is_alive_ret(_process[ev.h], procs)

C4_Witness ==
    ev.op = "stop" /\ ~ev.pre.started /\ ev.pre.last # NoProc /\ ev.ret = "None"

\* C5: stderr() called while the current child is running returns the
\* "running" sentinel, reads from no process and leaves _log, started,
\* _process and _last_process as they were.
C5_FetchWhileAliveSentinel ==
    (ev.op = "stderr" /\ ev.pre.running) =>
        /\ ev.ret = RUNNING_SENTINEL
        /\ ev.read = NoProc
        /\ started[ev.h] = ev.pre.started
        /\ _process[ev.h] = ev.pre.proc
        /\ _last_process[ev.h] = ev.pre.last
        /\ _log[ev.h] = ev.pre.log

C5_Witness ==
    ev.op = "stderr" /\ ev.pre.running /\ ev.ret = RUNNING_SENTINEL

C7_AtMostOneLiveChild ==
    \A h \in _possible_modules : Cardinality(LiveChildren(h)) <= 1

\* The running children of handle h that the handle no longer refers to.
Orphans(h) == LiveChildren(h) \ {_process[h]}

\* C7 amended: a running child of a handle other than its _process comes
\* about only by a start() called on a handle whose started flag is true;
\* as long as no such start() is made, the only child of the handle that
\* can be running is _process, so at most one is.
C7_OnlyStartOnStartedDoubles ==
    [][\A h \in _possible_modules :
          (/\ Orphans(h) = {}
           /\ ~(started[h] /\ \E t \in BOOLEAN : start(h, t)))
          => /\ Orphans(h)' = {}
             /\ Cardinality(LiveChildren(h))' <= 1
      ]_vars

C7_Witness ==
    \E h \in _possible_modules :
        /\ Cardinality({p \in 1..Len(procs) : procs[p].owner = h}) >= 2
        /\ Cardinality(LiveChildren(h)) = 1
        /\ Orphans(h) = {}
        /\ ev.inner = "start" /\ ev.h = h /\ ev.ret = "None"

\* C8 as stated: stderr() on a handle that has had a process, none of them
\* running, does not raise: it reads the most recently terminated process
\* and returns the accumulated log.
C8_FetchLogReadsTerminated ==
    (/\ ev.op = "stderr"
     /\ ~ev.pre.running
     /\ (ev.pre.proc # NoProc \/ ev.pre.last # NoProc)) =>
        /\ ev.ret = "log"
        /\ ev.read = (IF ev.pre.started THEN ev.pre.proc ELSE ev.pre.last)

\* C9: stderr() reads only from a process that has exited, and
\* _last_process always is a process that has exited.
C9_ReadsOnlyExited ==
    [][/\ \A h \in _possible_modules :
            (stderr(h) /\ ev'.read # NoProc) => procs[ev'.read].exit # None
       /\ \A h \in _possible_modules :
            _last_process'[h] # NoProc => procs'[_last_process'[h]].exit # None
      ]_vars

C9_Witness ==
    /\ ev.op = "stderr" /\ ev.read # NoProc /\ ev.read = ev.pre.last
    /\ \E h \in _possible_modules : started[h] /\ Running(_process[h], procs)

\* C10 as stated: a start() that spawns a process replaces _last_process.
C10_StartReplacesLast ==
    (ev.inner = "start" /\ ev.ret = "None" /\ ev.pre.last # NoProc)
        => _last_process[ev.h] # ev.pre.last

\* C10 amended: start() leaves _last_process as it was; it is a stop()
\* returning on a started handle that replaces _last_process, by the
\* process that was _process.
C10_StopReplacesLast ==
    /\ (ev.inner = "start") => _last_process[ev.h] = ev.pre.last
    /\ (ev.inner = "stop" /\ ev.pre.started /\ ev.ret = "None")
          => _last_process[ev.h] = ev.pre.proc

C10_Witness ==
    /\ ev.inner = "stop" /\ ev.pre.started /\ ev.ret = "None"
    /\ ev.pre.last # NoProc /\ _last_process[ev.h] # ev.pre.last

\* a is a prefix of b.
IsPrefix(a, b) == Len(a) <= Len(b) /\ SubSeq(b, 1, Len(a)) = a

\* C11: _log is append-only: every step leaves the old value of a handle's
\* _log a prefix of the new one, and only stderr() on that handle changes it.
C11_LogAppendOnly ==
    [][\A h \in _possible_modules :
          /\ IsPrefix(_log[h], _log'[h])
          /\ (_log'[h] # _log[h]) => stderr(h)
      ]_vars

C11_Witness ==
    /\ ev.op = "stderr" /\ ev.read # NoProc /\ ev.read = ev.pre.proc
    /\ IsPrefix(ev.pre.log, _log[ev.h])

\* C12: a start() whose launch fails, called directly or by toggle(), raises
\* to the caller and leaves started, _process, _last_process and _log as
\* they were, with no process spawned; a start() that returns has spawned
\* exactly one process.
C12_LaunchFailureLeavesHandle ==
    [][(call.pc = "idle" /\ ev'.inner = "start") =>
          \A t \in BOOLEAN :
              LET h == ev'.h
                  StartPath == start(h, t) \/ (toggle(h, t) /\ ~started[h])
              IN  /\ (StartPath /\ ev'.ret = "OSError") =>
                       UNCHANGED <<started, _process, _last_process, _log, procs, call>>
                  /\ (StartPath /\ ev'.ret # "OSError") =>
                       /\ ev'.ret = "None"
                       /\ Len(procs') = Len(procs) + 1
                       /\ started'[h] /\ _process'[h] = Len(procs')
      ]_vars

C12_Witness ==
    /\ ev.op = "toggle" /\ ev.inner = "start" /\ ev.ret = "OSError"
    /\ ev.pre.last # NoProc /\ ~started[ev.h] /\ _process[ev.h] = NoProc

\* C13: stop() on a started handle with a running child signals it and
\* waits without a timeout: it returns only once the child has exited, it
\* does return once the child has exited, and as long as it is blocked
\* started and _process keep their values.  Only stop() (directly or by
\* toggle()) on a running child ever waits.
C13_StopWaitsForExit ==
    /\ [][/\ (call.pc = "wait" /\ call'.pc = "idle") =>
               /\ ~Running(_process[call.h], procs)
               /\ ev'.inner = "stop" /\ ev'.sig = _process[call.h]
          /\ (call.pc = "wait" /\ call'.pc = "wait") =>
               /\ call' = call
               /\ UNCHANGED <<started, _process, _last_process, _log>>
               /\ started[call.h] /\ _process[call.h] # NoProc
          /\ (call.pc = "idle" /\ call'.pc = "wait") =>
               \E h \in _possible_modules :
                   /\ call'.h = h
                   /\ started[h] /\ Running(_process[h], procs)
                   /\ stop(h) \/ \E t \in BOOLEAN : toggle(h, t)
         ]_vars
    /\ (call.pc = "wait" /\ ~Running(_process[call.h], procs))
           ~> (call.pc = "idle")

C13_Witness ==
    /\ call.pc = "wait" /\ call.op = "stop"
    /\ started[call.h] /\ Running(_process[call.h], procs)

\* C14: when stop() is entered with started true and returns, whether its
\* child was running or had already exited, _last_process is the process
\* that was _process and _process is None.
C14_StopMovesProcess ==
    (ev.inner = "stop" /\ ev.pre.started) =>
        /\ ev.pre.proc # NoProc
        /\ _last_process[ev.h] = ev.pre.proc
        /\ _process[ev.h] = NoProc

C14_Witness ==
    /\ ev.inner = "stop" /\ ev.pre.started /\ ~ev.pre.running
    /\ ev.sig = NoProc /\ ev.ret = "None"
    /\ _last_process[ev.h] = ev.pre.proc /\ _process[ev.h] = NoProc

\* Handle h is started and its child has exited.
Crashed(h) == started[h] /\ _process[h] # NoProc /\ ~Running(_process[h], procs)

\* A step of start(), of stop() or of toggle() on handle h.
StartStopStep(h) ==
    \/ \E t \in BOOLEAN : start(h, t) \/ toggle(h, t)
    \/ stop(h)
    \/ stop_wait(h)

\* C15: started becomes true only in start() and false only in stop();
\* is_alive() and get_unexpected_stops() change no handle's started,
\* _process, _last_process or _log, stderr() and a child's exit change no
\* started flag; a crashed handle stays crashed, and is returned by every
\* get_unexpected_stops(), until start(), stop() or toggle() is called on it.
C15_StartedIsIntentOnly ==
    [][\A h \in _possible_modules :
          /\ (started'[h] /\ ~started[h]) =>
                 \E t \in BOOLEAN : start(h, t) \/ toggle(h, t)
          /\ (~started'[h] /\ started[h]) =>
                 (stop(h) \/ stop_wait(h) \/ \E t \in BOOLEAN : toggle(h, t))
          /\ (\/ started'[h] # started[h]
              \/ _process'[h] # _process[h]
              \/ _last_process'[h] # _last_process[h]
              \/ _log'[h] # _log[h]) =>
                 /\ ~get_unexpected_stops
                 /\ \A g \in _possible_modules : ~is_alive(g)
          /\ (started'[h] # started[h]) =>
                 /\ \A g \in _possible_modules : ~stderr(g)
                 /\ \A p \in 1..Len(procs) : ~ChildExit(p)
          /\ (Crashed(h) /\ ev'.op = "get_unexpected_stops" /\ h \notin ev'.stops)
                 => ~get_unexpected_stops
          /\ (Crashed(h) /\ ~Crashed(h)') => StartStopStep(h)
      ]_vars

C15_Witness ==
    /\ ev.op = "is_alive" /\ ev.ret = "False" /\ ev.pre.started
    /\ Crashed(ev.h) /\ procs[_process[ev.h]].returncode # None

\* The lifecycle state of handle h.  A child that exits while stop() waits
\* for it is part of the stop: the handle is Running until stop() returns.
Life(h) ==
    IF started[h]
    THEN (IF Running(_process[h], procs) \/ (call.pc = "wait" /\ call.h = h)
          THEN "Running" ELSE "Crashed")
    ELSE (IF _process[h] = NoProc /\ _last_process[h] = NoProc
          THEN "NotStarted" ELSE "Stopped")

\* A start() on h, called directly or by toggle(), that returned.
StartReturned(h) ==
    /\ started'[h]
    /\ \E t \in BOOLEAN : start(h, t) \/ (toggle(h, t) /\ ~started[h])

\* A stop() on h, called directly or by toggle(), that returned.
StopReturned(h) ==
    /\ ~started'[h]
    /\ (stop(h) \/ stop_wait(h) \/ (started[h] /\ \E t \in BOOLEAN : toggle(h, t)))

\* C16 as stated: the only lifecycle transitions are NotStarted->Running,
\* Crashed->Running and Stopped->Running by a start() that returns,
\* Running->Stopped by stop(), and Running->Crashed by the child's exit.
C16_LifecycleAsStated ==
    [][\A h \in _possible_modules :
          (Life(h)' # Life(h)) =>
             \/ Life(h) = "NotStarted" /\ Life(h)' = "Running" /\ StartReturned(h)
             \/ Life(h) = "Running" /\ Life(h)' = "Stopped" /\ StopReturned(h)
             \/ Life(h) = "Running" /\ Life(h)' = "Crashed" /\ ChildExit(_process[h])
             \/ Life(h) \in {"Crashed", "Stopped"} /\ Life(h)' = "Running"
                   /\ StartReturned(h)
      ]_vars

\* C16 amended: the transitions are those, and Crashed->Stopped by stop().
C16_Lifecycle ==
    [][\A h \in _possible_modules :
          (Life(h)' # Life(h)) =>
             \/ Life(h) = "NotStarted" /\ Life(h)' = "Running" /\ StartReturned(h)
             \/ Life(h) = "Running" /\ Life(h)' = "Stopped" /\ StopReturned(h)
             \/ Life(h) = "Running" /\ Life(h)' = "Crashed" /\ ChildExit(_process[h])
             \/ Life(h) \in {"Crashed", "Stopped"} /\ Life(h)' = "Running"
                   /\ StartReturned(h)
             \/ Life(h) = "Crashed" /\ Life(h)' = "Stopped" /\ StopReturned(h)
      ]_vars

C16_Witness ==
    /\ ev.inner = "stop" /\ ev.pre.started /\ ~ev.pre.running
    /\ Life(ev.h) = "Stopped"
    /\ \E g \in _possible_modules : Life(g) = "Running"

\* C19: for every handle started is true exactly when _process is not None;
\* hence a stderr() that takes the branch reading _process finds a process
\* there, and no stderr() takes the last branch (line 113).
C19_StartedIffProcess ==
    /\ \A h \in _possible_modules : started[h] <=> (_process[h] # NoProc)
    /\ (ev.op = "stderr") =>
          LET br == stderr_branch(ev.pre.running, ev.pre.started,
                                  ev.pre.proc, ev.pre.last)
          IN  /\ br # "broken"
              /\ (br = "read_process") => (ev.pre.proc # NoProc /\ ev.read = ev.pre.proc)
              /\ (br = "read_last") => (ev.pre.proc = NoProc /\ ev.read = ev.pre.last)

C19_Witness ==
    /\ ev.inner = "start" /\ ev.ret = "OSError" /\ ev.pre.started
    /\ started[ev.h] /\ _process[ev.h] = ev.pre.proc /\ _process[ev.h] # NoProc

\* C18: the command of start() begins with the path in the supervisor's own
\* directory if the file is there, else with the path in the parent
\* directory if the file is there, else with the bare name; it is followed
\* by "--testing" exactly when the testing flag is set, and by nothing else.
C18_ResolveOrder ==
    (ev.op = "start" /\ "cmd" \in DOMAIN ev) =>
        LET own == Path("curr_dir", ev.h)
            parent == Path("parent_dir", ev.h)
        IN  /\ Len(ev.cmd) = (IF ev.testing THEN 2 ELSE 1)
            /\ ev.testing => ev.cmd[2] = Path("", "--testing")
            /\ (own \in ev.isfile) => ev.cmd[1] = own
            /\ (own \notin ev.isfile /\ parent \in ev.isfile) => ev.cmd[1] = parent
            /\ (own \notin ev.isfile /\ parent \notin ev.isfile)
                  => ev.cmd[1] = Path("", ev.h)

C18_Witness ==
    /\ ev.op = "start" /\ "cmd" \in DOMAIN ev /\ ev.testing
    /\ Path("curr_dir", ev.h) \in ev.isfile
    /\ Path("parent_dir", ev.h) \in ev.isfile
    /\ ev.cmd = <<Path("curr_dir", ev.h), Path("", "--testing")>>

Max(x, y) == IF x >= y THEN x ELSE y

Min(x, y) == IF x <= y THEN x ELSE y

\* C20: for periods a and b with start < end, a.intersection(b) is None when
\* max(a.start, b.start) >= min(a.end, b.end) and else the period from that
\* maximum to that minimum; b.intersection(a) is the same, and
\* a.overlaps(b) = b.overlaps(a).
C20_IntersectionBounds ==
    (ev.op = "intersection") =>
        LET lo == Max(ev.a.start, ev.b.start)
            hi == Min(ev.a.end, ev.b.end)
        IN  /\ (lo >= hi) => ev.ret = None
            /\ (lo < hi) => ev.ret = <<TimePeriod(lo, hi)>>
            /\ ev.rev = ev.ret
            /\ ev.overlaps = ev.overlaps_rev
            /\ ev.overlaps = (lo < hi)

C20_Witness ==
    /\ ev.op = "intersection"
    /\ ev.a.start < ev.b.start /\ ev.b.start < ev.a.end /\ ev.a.end < ev.b.end
    /\ ev.ret = <<TimePeriod(ev.b.start, ev.a.end)>>
    /\ ev.overlaps

\* C17: with the callers serialized, toggle() alone never leaves two
\* children of one handle running, and a caller on the start path has read
\* started = false from a handle that still is not started; without
\* serialization two callers that both read started = false both spawn a
\* child, of which _process keeps one (C17_Witness).
C17_SerializedToggleNoDoubleSpawn ==
    call.serialized =>
        /\ \A h \in _possible_modules :
              /\ Cardinality(LiveChildren(h)) <= 1
              /\ Orphans(h) = {}
        /\ \A c \in Callers :
              (call.at[c].pc = "start") =>
                  (~call.at[c].saw /\ ~started[call.at[c].h])

C17_Witness ==
    /\ ~call.serialized
    /\ \A c \in Callers : call.at[c].pc = "idle"
    /\ \E h \in _possible_modules :
          /\ Cardinality(LiveChildren(h)) = 2
          /\ Cardinality({p \in 1..Len(procs) : procs[p].owner = h}) = 2
          /\ _process[h] \in LiveChildren(h)
          /\ Orphans(h) # {}

============================================================================
